---------------------------- MODULE Spec2Model ----------------------------
(***************************************************************************)
(* grid-seq: the LV2 step sequencer plugin (run / activate / deactivate),  *)
(* its sequencer engine and its state module, as a state machine.          *)
(*                                                                         *)
(* One step of the machine is one call the host makes on the plugin        *)
(* (activate, run, deactivate) or one write of the host / editor to a      *)
(* control input port between two calls.                                   *)
(***************************************************************************)
EXTENDS Integers, Sequences, FiniteSets, TLC

(***************************************************************************)
(* Program constants.                                                      *)
(***************************************************************************)
MAX_GRID_SIZE == 16
MIN_SEQUENCE_LENGTH == 1
MAX_SEQUENCE_LENGTH == 16
GRID_PITCH_RANGE == 128
GRID_VISIBLE_ROWS == 8
DEFAULT_PITCH_OFFSET == 36
GRID_SIZE == 8
\* The headers of the 16x128 version of the state module are not part of the
\* sources at hand: the grid's second index is the MIDI note itself.
GRID_ROWS == 128
BASE_NOTE == 0
DEFAULT_SEQUENCE_LENGTH == 8
DEFAULT_TEMPO == 120

LP_COLOR_OFF == 0
LP_COLOR_WHITE == 3
LP_COLOR_YELLOW == 13
LP_COLOR_GREEN == 21
LP_COLOR_GREEN_DIM == 23

NOTE_ON == 144
NOTE_OFF == 128
CONTROL_CHANGE == 176
NOTE_VELOCITY == 100

(***************************************************************************)
(* Bounds of the model.                                                    *)
(***************************************************************************)
\* Host sample rate in Hz, scaled down so that one step is a few frames:
\* 120 BPM gives frames_per_step = 4, 80 BPM gives 6.
SampleRate == 8
\* Largest n_samples of one run() call.
MaxSamples == 4
\* run() is not called any more once frame_counter would pass this value.
MaxFrame == 10
\* The number of run() calls of one behaviour that carry MIDI events.
MaxInputs == 2

VARIABLES
    state,    \* GridSeqState: the sequencer state inside the plugin
    gs,       \* the other fields of the GridSeq plugin instance
    port,     \* the control input ports, written by the host and the editor
    outp,     \* the control output ports, written by run()
    out,      \* the three atom output sequences of the last run()
    lifecycle,\* where the host is in the LV2 life cycle of the instance
    hist      \* what the last call was and what it saw (for the properties)

vars == <<state, gs, port, outp, out, lifecycle, hist>>

(***************************************************************************)
(* Small helpers.                                                          *)
(***************************************************************************)
RECURSIVE Pow2(_)
Pow2(k) == IF k = 0 THEN 1 ELSE 2 * Pow2(k - 1)

Max(a, b) == IF a > b THEN a ELSE b

Range(s) == {s[i] : i \in 1..Len(s)}

\* The members of a finite set of numbers in increasing order.
RECURSIVE Ascending(_)
Ascending(S) ==
    IF S = {} THEN << >>
    ELSE LET least == CHOOSE a \in S : \A b \in S : a <= b
         IN  <<least>> \o Ascending(S \ {least})

\* a / b and a % b of unsigned integers.  A divisor of 0 is undefined in C:
\* a build either traps (see run) or, where the division instruction does
\* not trap, yields the quotient 0 and the remainder a - 0 * b = a.
Div(a, b) == IF b = 0 THEN 0 ELSE a \div b
Mod(a, b) == IF b = 0 THEN a ELSE a % b

\* A MIDI event of an output sequence: the frame offset and the bytes.
Ev(t, bytes) == [time |-> t, msg |-> bytes]

(***************************************************************************)
(* state.c                                                                 *)
(***************************************************************************)
\* (uint64_t)(seconds_per_beat * sample_rate): the conversion truncates.
FramesPerStep(bpm, rate) == (60 * rate) \div bpm

state_update_tempo(s, bpm) ==
    IF bpm <= 0 THEN s
    ELSE [s EXCEPT !.frames_per_step = FramesPerStep(bpm, s.sample_rate)]

\* state_toggle_step setting the cell instead of inverting it.
state_set_step(s, x, y) ==
    IF x >= MAX_GRID_SIZE \/ y >= GRID_ROWS THEN s
    ELSE [s EXCEPT !.grid = s.grid \cup {<<x, y>>}]

state_toggle_step(s, x, y) ==
    IF x >= MAX_GRID_SIZE \/ y >= GRID_ROWS THEN s
    ELSE [s EXCEPT !.grid = IF <<x, y>> \in s.grid
                             THEN s.grid \ {<<x, y>>}
                             ELSE s.grid \cup {<<x, y>>}]

\* memset to zero, then the fields state_init sets.  pitch_offset starts at
\* DEFAULT_PITCH_OFFSET: the visible window starts at C2.
state_init(rate) ==
    state_update_tempo(
      [ grid |-> {},
        base_note |-> BASE_NOTE,
        pitch_offset |-> DEFAULT_PITCH_OFFSET,
        current_step |-> 0,
        previous_step |-> 0,
        sequence_length |-> DEFAULT_SEQUENCE_LENGTH,
        hardware_page |-> 0,
        sample_rate |-> rate,
        playing |-> FALSE,
        first_run |-> FALSE,
        frame_counter |-> 0,
        frames_per_step |-> 0,
        active_notes |-> {} ],
      DEFAULT_TEMPO)

(***************************************************************************)
(* sequencer.c                                                             *)
(***************************************************************************)
\* The notes of column x in increasing order, as the loop over y visits them.
ColumnNotes(s, x) ==
    Ascending({s.base_note + c[2] : c \in {d \in s.grid : d[1] = x /\ d[2] < GRID_ROWS}})

\* Note On for every set cell of the current step; the notes become active.
sequencer_process_step(s, frame_offset) ==
    LET notes == ColumnNotes(s, s.current_step)
    IN  [ state |-> [s EXCEPT !.active_notes = @ \cup Range(notes),
                              !.previous_step = s.current_step],
          events |-> [i \in 1..Len(notes) |->
                        Ev(frame_offset, <<NOTE_ON, notes[i], NOTE_VELOCITY>>)] ]

\* Note Off for every active note; the set of active notes is cleared.
sequencer_process_note_offs(s, frame_offset) ==
    LET notes == Ascending({n \in s.active_notes : n < 128})
    IN  [ state |-> [s EXCEPT !.active_notes = {}],
          events |-> [i \in 1..Len(notes) |->
                        Ev(frame_offset, <<NOTE_OFF, notes[i], 0>>)] ]

\* sequencer_advance setting current_step from the step index the call began
\* in, not from the one it reached.
sequencer_advance_late(s, n_samples) ==
    IF ~s.playing THEN [state |-> s, crossed |-> FALSE]
    ELSE LET old_step == Div(s.frame_counter, s.frames_per_step)
             fc       == s.frame_counter + n_samples
             new_step == Div(fc, s.frames_per_step)
         IN  IF new_step # old_step
             THEN [ state |-> [s EXCEPT !.frame_counter = fc,
                                        !.current_step = old_step % s.sequence_length],
                    crossed |-> TRUE ]
             ELSE [ state |-> [s EXCEPT !.frame_counter = fc],
                    crossed |-> FALSE ]

\* Adds n_samples to the frame counter while playing; tells whether the step
\* index changed, and then sets current_step.
sequencer_advance(s, n_samples) ==
    IF ~s.playing THEN [state |-> s, crossed |-> FALSE]
    ELSE LET old_step == Div(s.frame_counter, s.frames_per_step)
             fc       == s.frame_counter + n_samples
             new_step == Div(fc, s.frames_per_step)
         IN  IF new_step # old_step
             THEN [ state |-> [s EXCEPT !.frame_counter = fc,
                                        !.current_step = new_step % s.sequence_length],
                    crossed |-> TRUE ]
             ELSE [ state |-> [s EXCEPT !.frame_counter = fc],
                    crossed |-> FALSE ]


(***************************************************************************)
(* Launchpad note numbering (launchpad.h).                                 *)
(***************************************************************************)
lp_grid_to_note(x, y) == 11 + x + (y * 10)
lp_note_x(note) == (note - 11) % 10
lp_note_y(note) == (note - 11) \div 10

(***************************************************************************)
(* Input events of one run() call.                                         *)
(***************************************************************************)
Position(has_bpm, bpm, has_speed, speed) ==
    [ type |-> "Position", has_bpm |-> has_bpm, bpm |-> bpm,
      has_speed |-> has_speed, speed |-> speed, msg |-> <<0, 0, 0>> ]

Midi(status, d1, d2) ==
    [ type |-> "Midi", has_bpm |-> FALSE, bpm |-> 0,
      has_speed |-> FALSE, speed |-> 0, msg |-> <<status, d1, d2>> ]

\* The high nibble of a status byte: msg[0] & 0xF0.
StatusKind(status) == (status \div 16) * 16

(***************************************************************************)
(* run(), first part: the sequence length port.                            *)
(* m is the plugin instance while run() works on it: state, gs, the events *)
(* forged so far and the edges of the transport seen so far.               *)
(***************************************************************************)
\* ReadSequenceLength accepting one value past the longest sequence.
ReadSequenceLengthPastMax(m, value) ==
    IF value >= MIN_SEQUENCE_LENGTH /\ value <= MAX_SEQUENCE_LENGTH + 1
    THEN [m EXCEPT !.state.sequence_length = value]
    ELSE m

\* ReadSequenceLength clearing the columns the new length cuts off.
ReadSequenceLengthTruncating(m, value) ==
    IF value >= MIN_SEQUENCE_LENGTH /\ value <= MAX_SEQUENCE_LENGTH
    THEN [m EXCEPT !.state.sequence_length = value,
                   !.state.grid = {cell \in @ : cell[1] < value}]
    ELSE m

ReadSequenceLength(m, value) ==
    IF value >= MIN_SEQUENCE_LENGTH /\ value <= MAX_SEQUENCE_LENGTH
    THEN [m EXCEPT !.state.sequence_length = value]
    ELSE m

(***************************************************************************)
(* run(), second part: one event of the input sequence.                    *)
(***************************************************************************)
\* A time:Position object: the tempo, then the transport speed.
OnPosition(m, ev) ==
    LET m1 == IF ev.has_bpm /\ ev.bpm > 0
              THEN [m EXCEPT !.state = state_update_tempo(m.state, ev.bpm)]
              ELSE m
        was_playing == m1.state.playing
        now_playing == ev.speed > 0
    IN  IF ~ev.has_speed THEN m1
        ELSE IF ~was_playing /\ now_playing
        THEN [m1 EXCEPT !.state.playing = TRUE,
                        !.state.frame_counter = 0,
                        !.state.current_step = 0,
                        !.start_edge = TRUE]
        ELSE [m1 EXCEPT !.state.playing = now_playing,
                        !.stop_edge = @ \/ (was_playing /\ ~now_playing)]

\* OnPadNote without the test of the column against the sequence length.
OnPadNoteAnyColumn(m, note) ==
    IF note >= 11 /\ note <= 88
    THEN LET x == lp_note_x(note)
             y == lp_note_y(note)
             actual_x == x + (m.state.hardware_page * 8)
             actual_y == y + m.state.pitch_offset
         IN  IF x < 8 /\ y < 8 /\ actual_y < GRID_PITCH_RANGE
             THEN [m EXCEPT !.state = state_toggle_step(m.state, actual_x, actual_y),
                            !.gs.grid_dirty = TRUE,
                            !.gs.grid_change_counter = @ + 1,
                            !.gs.last_toggled_x = actual_x,
                            !.gs.last_toggled_y = actual_y]
             ELSE m
    ELSE m

\* A pad of the 8x8 matrix pressed: Note On with velocity > 0.
OnPadNote(m, note) ==
    IF note >= 11 /\ note <= 88
    THEN LET x == lp_note_x(note)
             y == lp_note_y(note)
             actual_x == x + (m.state.hardware_page * 8)
             actual_y == y + m.state.pitch_offset
         IN  IF x < 8 /\ y < 8 /\ actual_x < m.state.sequence_length
                /\ actual_y < GRID_PITCH_RANGE
             THEN [m EXCEPT !.state = state_toggle_step(m.state, actual_x, actual_y),
                            !.gs.grid_dirty = TRUE,
                            !.gs.grid_change_counter = @ + 1,
                            !.gs.last_toggled_x = actual_x,
                            !.gs.last_toggled_y = actual_y]
             ELSE m
    ELSE m

\* OnControlChange with the pitch window allowed one note above its top.
OnControlChangePastTop(m, cc, value) ==
    IF value <= 0 THEN m
    ELSE IF cc = 93
    THEN IF m.state.hardware_page > 0
         THEN [m EXCEPT !.state.hardware_page = @ - 1, !.gs.grid_dirty = TRUE]
         ELSE m
    ELSE IF cc = 94
    THEN IF m.state.sequence_length > 8 /\ m.state.hardware_page = 0
         THEN [m EXCEPT !.state.hardware_page = 1, !.gs.grid_dirty = TRUE]
         ELSE m
    ELSE IF cc = 91
    THEN IF m.state.pitch_offset > 0
         THEN [m EXCEPT !.state.pitch_offset = @ - 1, !.gs.grid_dirty = TRUE]
         ELSE m
    ELSE IF cc = 92
    THEN IF m.state.pitch_offset <= (GRID_PITCH_RANGE - GRID_VISIBLE_ROWS)
         THEN [m EXCEPT !.state.pitch_offset = @ + 1, !.gs.grid_dirty = TRUE]
         ELSE m
    ELSE m

\* A Control Change: the arrow buttons and the pitch shift buttons.
OnControlChange(m, cc, value) ==
    IF value <= 0 THEN m
    ELSE IF cc = 93
    THEN IF m.state.hardware_page > 0
         THEN [m EXCEPT !.state.hardware_page = @ - 1, !.gs.grid_dirty = TRUE]
         ELSE m
    ELSE IF cc = 94
    THEN IF m.state.sequence_length > 8 /\ m.state.hardware_page = 0
         THEN [m EXCEPT !.state.hardware_page = 1, !.gs.grid_dirty = TRUE]
         ELSE m
    ELSE IF cc = 91
    THEN IF m.state.pitch_offset > 0
         THEN [m EXCEPT !.state.pitch_offset = @ - 1, !.gs.grid_dirty = TRUE]
         ELSE m
    ELSE IF cc = 92
    THEN IF m.state.pitch_offset < (GRID_PITCH_RANGE - GRID_VISIBLE_ROWS)
         THEN [m EXCEPT !.state.pitch_offset = @ + 1, !.gs.grid_dirty = TRUE]
         ELSE m
    ELSE m

OnMidi(m, ev) ==
    IF StatusKind(ev.msg[1]) = NOTE_ON /\ ev.msg[3] > 0
    THEN OnPadNote(m, ev.msg[2])
    ELSE IF StatusKind(ev.msg[1]) = CONTROL_CHANGE
    THEN OnControlChange(m, ev.msg[2], ev.msg[3])
    ELSE m

ProcessEvent(m, ev) ==
    IF ev.type = "Position" THEN OnPosition(m, ev)
    ELSE IF ev.type = "Midi" THEN OnMidi(m, ev)
    ELSE m

\* LV2_ATOM_SEQUENCE_FOREACH over the input sequence (m.returned is not set
\* before the editor input: the test only has m computed event by event).
RECURSIVE ProcessEvents(_, _)
ProcessEvents(m, evs) ==
    IF evs = << >> \/ m.returned THEN m
    ELSE ProcessEvents(ProcessEvent(m, Head(evs)), Tail(evs))

(***************************************************************************)
(* run(), third part: the editor's grid_x / grid_y ports.  The four        *)
(* sentinel branches end run() at once (m.returned); what they forge is    *)
(* written before the forges are bound to this call's buffers (m.unbound). *)
(***************************************************************************)
SYSEX_INQUIRY == <<240, 126, 127, 6, 1, 247>>
SYSEX_ENTER_PROGRAMMER == <<240, 0, 32, 41, 2, 13, 14, 1, 247>>
SYSEX_EXIT_PROGRAMMER == <<240, 0, 32, 41, 2, 13, 14, 0, 247>>

send_sysex_programmer_mode(enter) ==
    Ev(0, IF enter THEN SYSEX_ENTER_PROGRAMMER ELSE SYSEX_EXIT_PROGRAMMER)

EditorInput(m, x, y) ==
    IF x = -200 /\ x # m.gs.prev_grid_x
    THEN [m EXCEPT !.unbound_midi = @ \o <<Ev(0, SYSEX_INQUIRY)>>,
                   !.unbound_launchpad = @ \o <<Ev(0, SYSEX_INQUIRY)>>,
                   !.gs.prev_grid_x = x,
                   !.returned = TRUE]
    ELSE IF x = -100 /\ x # m.gs.prev_grid_x
    THEN [m EXCEPT !.unbound_midi = @ \o <<Ev(0, SYSEX_INQUIRY),
                                          send_sysex_programmer_mode(FALSE)>>,
                   !.unbound_launchpad = @ \o <<send_sysex_programmer_mode(FALSE)>>,
                   !.gs.launchpad_mode_entered = FALSE,
                   !.gs.prev_grid_x = x,
                   !.returned = TRUE]
    ELSE IF x = -300 /\ x # m.gs.prev_grid_x
    THEN [m EXCEPT !.state.grid = {},
                   !.gs.grid_dirty = TRUE,
                   !.gs.grid_change_counter = @ + 1,
                   !.gs.prev_grid_x = x,
                   !.returned = TRUE]
    ELSE IF x = -400 /\ x # m.gs.prev_grid_x
    THEN [m EXCEPT !.state.pitch_offset = DEFAULT_PITCH_OFFSET,
                   !.gs.grid_dirty = TRUE,
                   !.gs.prev_grid_x = x,
                   !.returned = TRUE]
    ELSE IF (x # m.gs.prev_grid_x \/ y # m.gs.prev_grid_y)
            /\ x >= 0 /\ x < MAX_GRID_SIZE /\ y >= 0 /\ y < GRID_VISIBLE_ROWS
            /\ m.state.pitch_offset + y < GRID_PITCH_RANGE
    THEN LET absolute_note == m.state.pitch_offset + y
         IN  [m EXCEPT !.state = state_toggle_step(m.state, x, absolute_note),
                       !.gs.prev_grid_x = x,
                       !.gs.prev_grid_y = y,
                       !.gs.grid_dirty = TRUE,
                       !.gs.grid_change_counter = @ + 1,
                       !.gs.last_toggled_x = x,
                       !.gs.last_toggled_y = absolute_note]
    ELSE m

(***************************************************************************)
(* run(), fourth part: the control output ports, written before the        *)
(* playback phase.                                                         *)
(***************************************************************************)
\* One column of the visible 8-note window, bit y for note pitch_offset + y.
RECURSIVE SumPow2(_)
SumPow2(S) ==
    IF S = {} THEN 0
    ELSE LET y == CHOOSE a \in S : TRUE
         IN  Pow2(y) + SumPow2(S \ {y})

PackRow(s, x) ==
    SumPow2({y \in 0..(GRID_VISIBLE_ROWS - 1) : <<x, s.pitch_offset + y>> \in s.grid})

update_grid_row_ports(s) == [x \in 0..(MAX_GRID_SIZE - 1) |-> PackRow(s, x)]

WriteOutputPorts(m) ==
    [ current_step |-> m.state.current_step,
      grid_changed |-> m.gs.grid_change_counter % 1000000,
      grid_row |-> update_grid_row_ports(m.state) ]

(***************************************************************************)
(* run(), fifth part: Programmer Mode on the first run.                    *)
(***************************************************************************)
\* EnterProgrammerMode setting its flag without sending the SysEx to the
\* Launchpad.
EnterProgrammerModeSilently(m) ==
    IF ~m.gs.launchpad_mode_entered
    THEN [m EXCEPT !.midi = @ \o <<send_sysex_programmer_mode(TRUE)>>,
                   !.gs.launchpad_mode_entered = TRUE,
                   !.gs.grid_dirty = TRUE]
    ELSE m

EnterProgrammerMode(m) ==
    IF ~m.gs.launchpad_mode_entered
    THEN [m EXCEPT !.midi = @ \o <<send_sysex_programmer_mode(TRUE)>>,
                   !.launchpad = @ \o <<send_sysex_programmer_mode(TRUE)>>,
                   !.gs.launchpad_mode_entered = TRUE,
                   !.gs.grid_dirty = TRUE]
    ELSE m

(***************************************************************************)
(* run(), sixth part: the playback phase.                                  *)
(***************************************************************************)
\* The first step on the first run, else the clock advances and a changed
\* step index plays the new step.
StepPhase(m, n_samples) ==
    IF m.state.first_run
    THEN LET r == sequencer_process_step(m.state, 0)
         IN  [m EXCEPT !.state = [r.state EXCEPT !.first_run = FALSE],
                       !.midi = @ \o r.events]
    ELSE LET a == sequencer_advance(m.state, n_samples)
         IN  IF a.crossed
             THEN LET r == sequencer_process_step(a.state, 0)
                  IN  [m EXCEPT !.state = r.state,
                                !.midi = @ \o r.events,
                                !.gs.grid_dirty = TRUE]
             ELSE [m EXCEPT !.state = a.state]

\* was_before_half, taken before the clock advances.
WasBeforeHalf(s) ==
    Mod(s.frame_counter, s.frames_per_step) < (s.frames_per_step \div 2)

\* is_after_half, taken after the clock advanced.
IsAfterHalf(s) ==
    Mod(s.frame_counter, s.frames_per_step) >= (s.frames_per_step \div 2)

\* The frame of the 50% point of the step the clock is in.
HalfPoint(s) ==
    Div(s.frame_counter, s.frames_per_step) * s.frames_per_step
        + (s.frames_per_step \div 2)

\* Note Off at the 50% point, unless the MIDI filter port is on.
NoteOffPhase(m, old_frame, was_before_half, filter_enabled) ==
    IF was_before_half /\ IsAfterHalf(m.state)
    THEN LET offset == HalfPoint(m.state) - old_frame
         IN  IF ~filter_enabled
             THEN LET r == sequencer_process_note_offs(m.state, offset)
                  IN  [m EXCEPT !.state = r.state, !.midi = @ \o r.events]
             ELSE m
    ELSE m

\* PlaybackPhase writing the Note Offs of the 50% point before the Note Ons
\* of the step.
PlaybackPhaseOffsFirst(m, n_samples, filter) ==
    LET old_frame == m.state.frame_counter
        was_before_half == WasBeforeHalf(m.state)
        stepped == StepPhase(m, n_samples)
        done == NoteOffPhase(stepped, old_frame, was_before_half, 2 * filter > 1)
        ons == SubSeq(stepped.midi, Len(m.midi) + 1, Len(stepped.midi))
        offs == SubSeq(done.midi, Len(stepped.midi) + 1, Len(done.midi))
    IN  [done EXCEPT !.midi = m.midi \o offs \o ons]

PlaybackPhase(m, n_samples, filter) ==
    LET old_frame == m.state.frame_counter
        was_before_half == WasBeforeHalf(m.state)
    IN  NoteOffPhase(StepPhase(m, n_samples), old_frame, was_before_half,
                     2 * filter > 1)

(***************************************************************************)
(* run(), seventh part: the Launchpad LEDs and the editor notification.    *)
(***************************************************************************)
\* PadColor reading the columns of page 0 whatever the hardware page.
PadColorFirstPage(s, x, y) ==
    LET actual_step == x
        actual_note == s.pitch_offset + y
    IN  IF actual_step >= s.sequence_length THEN LP_COLOR_OFF
        ELSE IF actual_step = s.current_step
        THEN (IF <<actual_step, actual_note>> \in s.grid
              THEN LP_COLOR_YELLOW ELSE LP_COLOR_GREEN_DIM)
        ELSE (IF <<actual_step, actual_note>> \in s.grid
              THEN LP_COLOR_GREEN ELSE LP_COLOR_OFF)

PadColor(s, x, y) ==
    LET actual_step == (s.hardware_page * 8) + x
        actual_note == s.pitch_offset + y
    IN  IF actual_step >= s.sequence_length THEN LP_COLOR_OFF
        ELSE IF actual_step = s.current_step
        THEN (IF <<actual_step, actual_note>> \in s.grid
              THEN LP_COLOR_YELLOW ELSE LP_COLOR_GREEN_DIM)
        ELSE (IF <<actual_step, actual_note>> \in s.grid
              THEN LP_COLOR_GREEN ELSE LP_COLOR_OFF)

\* 64 pad messages, x outer and y inner, then the four arrow / pitch buttons.
update_launchpad_leds(s) ==
    [i \in 1..64 |->
        LET x == (i - 1) \div 8
            y == (i - 1) % 8
        IN  Ev(0, <<NOTE_ON, lp_grid_to_note(x, y), PadColor(s, x, y)>>)]
    \o << Ev(0, <<CONTROL_CHANGE, 93,
                  IF s.hardware_page > 0 THEN LP_COLOR_WHITE ELSE LP_COLOR_OFF>>),
          Ev(0, <<CONTROL_CHANGE, 94,
                  IF s.sequence_length > 8 /\ s.hardware_page = 0
                  THEN LP_COLOR_WHITE ELSE LP_COLOR_OFF>>),
          Ev(0, <<CONTROL_CHANGE, 91,
                  IF s.pitch_offset > 0 THEN LP_COLOR_WHITE ELSE LP_COLOR_OFF>>),
          Ev(0, <<CONTROL_CHANGE, 92,
                  IF s.pitch_offset < (GRID_PITCH_RANGE - GRID_VISIBLE_ROWS)
                  THEN LP_COLOR_WHITE ELSE LP_COLOR_OFF>>) >>

\* What the LED refresh reads of the state.
LedView(s) ==
    [ grid |-> s.grid, sequence_length |-> s.sequence_length,
      pitch_offset |-> s.pitch_offset, hardware_page |-> s.hardware_page,
      current_step |-> s.current_step ]

\* LedPhase refreshing the LEDs in every run().
LedPhaseEveryTick(m) ==
    [m EXCEPT !.leds = <<LedView(m.state)>>,
              !.gs.grid_dirty = FALSE,
              !.gs.prev_led_step = m.state.current_step]

\* The refresh is kept as the view it was computed from (m.leds, a sequence
\* of at most one view); LaunchpadOut below spells out its 68 messages.
LedPhase(m) ==
    IF m.gs.grid_dirty \/ m.state.current_step # m.gs.prev_led_step
    THEN [m EXCEPT !.leds = <<LedView(m.state)>>,
                   !.gs.grid_dirty = FALSE,
                   !.gs.prev_led_step = m.state.current_step]
    ELSE m

\* grid_data[x * 8 + y] = grid[x][y] for x, y below 8.
GridData(s) ==
    [i \in 1..64 |->
        IF <<(i - 1) \div 8, (i - 1) % 8>> \in s.grid THEN 1 ELSE 0]

NotifyPhase(m) ==
    IF m.gs.last_toggled_x >= 0 /\ m.gs.last_toggled_y >= 0
    THEN [m EXCEPT !.notify = @ \o <<Ev(0, GridData(m.state))>>,
                   !.gs.last_toggled_x = -1,
                   !.gs.last_toggled_y = -1]
    ELSE m

(***************************************************************************)
(* Reading the primary MIDI output sequence.                               *)
(***************************************************************************)
IsNoteOn(e) == Len(e.msg) = 3 /\ e.msg[1] = NOTE_ON /\ e.msg[3] > 0
IsNoteOff(e) == Len(e.msg) = 3 /\ e.msg[1] = NOTE_OFF

NoteOns(events) == {i \in 1..Len(events) : IsNoteOn(events[i])}
NoteOffs(events) == {i \in 1..Len(events) : IsNoteOff(events[i])}

\* A Note On of a pitch that is sounding already (sounding: the pitches with
\* a Note On and no Note Off since): no Note Off came in between.
RECURSIVE HasDoubleOn(_, _)
HasDoubleOn(sounding, events) ==
    IF events = << >> THEN FALSE
    ELSE LET e == Head(events)
         IN  \/ (IsNoteOn(e) /\ e.msg[2] \in sounding)
             \/ HasDoubleOn(IF IsNoteOn(e) THEN sounding \cup {e.msg[2]}
                            ELSE IF IsNoteOff(e) THEN sounding \ {e.msg[2]}
                            ELSE sounding,
                            Tail(events))

\* The pitches sounding after the events, given those sounding before them.
RECURSIVE SoundingAfter(_, _)
SoundingAfter(sounding, events) ==
    IF events = << >> THEN sounding
    ELSE LET e == Head(events)
         IN  SoundingAfter(IF IsNoteOn(e) THEN sounding \cup {e.msg[2]}
                           ELSE IF IsNoteOff(e) THEN sounding \ {e.msg[2]}
                           ELSE sounding,
                           Tail(events))

\* The pitches with a Note On (velocity 100, channel 0) / a Note Off at time t.
OnPitchesAt(events, t) ==
    {events[i].msg[2] : i \in {j \in NoteOns(events) :
                                 events[j].time = t /\ events[j].msg[3] = NOTE_VELOCITY}}

OffPitchesAt(events, t) ==
    {events[i].msg[2] : i \in {j \in NoteOffs(events) : events[j].time = t}}

\* What the last call was and what it saw.
\*   old_frame, old_step, playing, first_run: the state when the playback
\*       phase of the run() began (after the events and the editor input);
\*   playing_before, active_before: the state when the call began;
\*   sounding_before, sounding: the pitches with a Note On and no Note Off
\*       since, on the primary MIDI output, before and after the call;
\*   stop_edge, start_edge: the call decoded a true->false / false->true
\*       change of the transport speed;
\*   stopped: in the run() after one that decoded a stop while playing (and
\*       itself decodes no change of speed), the notes active at that stop;
\*   after_start, start_played: the run() after one that decoded a start,
\*       and whether that one played all of step 0 at offset 0;
\*   after_deactivate: the first run() after deactivate;
\*   tick_no: 1 and 2 for the first and second run() after activate, else 0;
\*   first_samples: in those two, n_samples of the first if it was playing;
\*   midi_in: the MIDI events of the input sequence of the run();
\*   length_in: the value of the sequence length port the run() read;
\*   inputs: the number of run() calls so far that carried MIDI events;
\*   click: the editor's click under way, <<x, y, k>>: the cell and the
\*       number of its two port writes the host has delivered so far;
\*   div_by_zero: what an integer division by zero does in the build at
\*       hand, "trap" (the process is killed) or "zero".
NoHist ==
    [ op |-> "none", n_samples |-> 0, returned |-> FALSE,
      old_frame |-> 0, old_step |-> 0,
      playing_before |-> FALSE, playing |-> FALSE, first_run |-> FALSE,
      active_before |-> {}, sounding_before |-> {}, sounding |-> {},
      stop_edge |-> FALSE, start_edge |-> FALSE,
      stopped |-> {}, after_start |-> FALSE, start_played |-> FALSE,
      after_deactivate |-> FALSE, tick_no |-> 0, first_samples |-> 0,
      midi_in |-> << >>, length_in |-> 0, inputs |-> 0, toggle |-> << >>,
      tempo_in |-> << >>, editor |-> << >>,
      programmer_before |-> FALSE, programmer |-> FALSE, led_sent |-> << >>,
      click |-> << >>, div_by_zero |-> "trap" ]

NoOutput ==
    [ midi |-> << >>, launchpad |-> << >>, leds |-> << >>, notify |-> << >>,
      unbound_midi |-> << >>, unbound_launchpad |-> << >>, bound |-> FALSE ]

(***************************************************************************)
(* The plugin's entry points, as functions of the whole configuration c:   *)
(* the instance (state, gs), its ports (port, outp), the output sequences  *)
(* of the last call (out), the host's place in the life cycle, and hist.   *)
(***************************************************************************)
instantiate(rate) ==
    [ state |-> state_init(rate),
      gs |-> [ prev_grid_x |-> -1, prev_grid_y |-> -1,
               launchpad_mode_entered |-> FALSE,
               prev_led_step |-> 0,
               grid_dirty |-> TRUE,
               grid_change_counter |-> 0,
               last_toggled_x |-> -1, last_toggled_y |-> -1 ],
      port |-> [ grid_x |-> -1, grid_y |-> -1,
                 sequence_length |-> DEFAULT_SEQUENCE_LENGTH,
                 midi_filter |-> 0 ],
      outp |-> [ current_step |-> 0, grid_changed |-> 0,
                 grid_row |-> [x \in 0..(MAX_GRID_SIZE - 1) |-> 0] ],
      out |-> NoOutput,
      lifecycle |-> "instantiated",
      hist |-> NoHist ]

activate(c) ==
    [c EXCEPT !.gs.launchpad_mode_entered = FALSE,
              !.state.playing = TRUE,
              !.state.frame_counter = 0,
              !.state.current_step = 0,
              !.state.previous_step = GRID_SIZE - 1,
              !.state.first_run = TRUE,
              !.gs.grid_dirty = TRUE,
              !.out = NoOutput,
              !.lifecycle = "active",
              !.hist = [NoHist EXCEPT !.op = "activate",
                                      !.active_before = c.state.active_notes,
                                      !.playing_before = c.state.playing,
                                      !.sounding_before = c.hist.sounding,
                                      !.sounding = c.hist.sounding,
                                      !.inputs = c.hist.inputs,
                                      !.led_sent = c.hist.led_sent]]

deactivate(c) ==
    [c EXCEPT !.state.playing = FALSE,
              !.out = NoOutput,
              !.lifecycle = "inactive",
              !.hist = [NoHist EXCEPT !.op = "deactivate",
                                      !.active_before = c.state.active_notes,
                                      !.playing_before = c.state.playing,
                                      !.sounding_before = c.hist.sounding,
                                      !.sounding = c.hist.sounding,
                                      !.inputs = c.hist.inputs,
                                      !.led_sent = c.hist.led_sent,
                                      !.programmer_before = c.hist.programmer,
                                      !.programmer = c.hist.programmer]]

\* The MIDI events of an input sequence, in order.
MidiEvents(evs) == SelectSeq(evs, LAMBDA ev : ev.type = "Midi")

\* The tempo values of the time:Position objects of the input sequence.
TempoEvents(evs) ==
    LET positions == SelectSeq(evs, LAMBDA ev : ev.type = "Position" /\ ev.has_bpm)
    IN  [i \in 1..Len(positions) |-> positions[i].bpm]

\* The mode the Launchpad is in after the mode SysEx messages of events.
ModeAfter(mode, events) ==
    LET sent == {i \in 1..Len(events) :
                    events[i].msg \in {SYSEX_ENTER_PROGRAMMER, SYSEX_EXIT_PROGRAMMER}}
    IN  IF sent = {} THEN mode
        ELSE LET last == CHOOSE i \in sent : \A j \in sent : j <= i
             IN  events[last].msg = SYSEX_ENTER_PROGRAMMER

\* run() killed by old_frame % frames_per_step with frames_per_step = 0:
\* the instance as the events and the editor input left it.
Trapped(c, m) ==
    [c EXCEPT !.state = m.state,
              !.gs = m.gs,
              !.out = NoOutput,
              !.lifecycle = "trapped",
              !.hist = [c.hist EXCEPT !.op = "trap"]]

\* Everything of run() behind the early returns of the editor's sentinels.
RunBody(m, n_samples, filter) ==
    NotifyPhase(LedPhase(PlaybackPhase(EnterProgrammerMode(m), n_samples, filter)))

\* run(): evs is the input sequence of this call.
run(c, evs, n_samples) ==
    LET m0 == [ state |-> c.state, gs |-> c.gs,
                midi |-> << >>, launchpad |-> << >>, leds |-> << >>,
                notify |-> << >>,
                unbound_midi |-> << >>, unbound_launchpad |-> << >>,
                returned |-> FALSE, stop_edge |-> FALSE, start_edge |-> FALSE ]
        m1 == ReadSequenceLength(m0, c.port.sequence_length)
        m2 == ProcessEvents(m1, evs)
        m3 == EditorInput(m2, c.port.grid_x, c.port.grid_y)
        m4 == IF m3.returned THEN m3
              ELSE RunBody(m3, n_samples, c.port.midi_filter)
    IN  IF ~m3.returned /\ m3.state.frames_per_step = 0
           /\ c.hist.div_by_zero = "trap"
        THEN Trapped(c, m3)
        ELSE
        [c EXCEPT
          !.state = m4.state,
          !.gs = m4.gs,
          !.outp = IF m3.returned THEN c.outp ELSE WriteOutputPorts(m3),
          !.out = [ midi |-> m4.midi, launchpad |-> m4.launchpad,
                    leds |-> m4.leds, notify |-> m4.notify,
                    unbound_midi |-> m4.unbound_midi,
                    unbound_launchpad |-> m4.unbound_launchpad,
                    bound |-> ~m3.returned ],
          !.hist = [ op |-> "run", n_samples |-> n_samples,
                     returned |-> m3.returned,
                     old_frame |-> m3.state.frame_counter,
                     old_step |-> m3.state.current_step,
                     playing_before |-> c.state.playing,
                     playing |-> m3.state.playing,
                     first_run |-> m3.state.first_run,
                     active_before |-> c.state.active_notes,
                     sounding_before |-> c.hist.sounding,
                     sounding |-> SoundingAfter(c.hist.sounding, m4.midi),
                     stop_edge |-> m3.stop_edge,
                     start_edge |-> m3.start_edge,
                     stopped |-> IF c.hist.op = "run" /\ c.hist.stop_edge
                                    /\ c.hist.playing_before
                                    /\ ~m3.start_edge /\ ~m3.stop_edge
                                 THEN c.hist.active_before ELSE {},
                     after_start |-> c.hist.op = "run" /\ c.hist.start_edge
                                     /\ ~m3.start_edge /\ ~m3.stop_edge,
                     start_played |->
                         IF m3.start_edge
                         THEN Range(ColumnNotes(m4.state, 0))
                                \subseteq OnPitchesAt(m4.midi, 0)
                         ELSE c.hist.op = "run" /\ c.hist.start_edge
                              /\ c.hist.start_played,
                     after_deactivate |-> c.hist.op = "deactivate",
                     tick_no |-> IF c.hist.op = "activate" THEN 1
                                 ELSE IF c.hist.op = "run" /\ c.hist.tick_no = 1
                                 THEN 2 ELSE 0,
                     first_samples |->
                         IF c.hist.op = "activate"
                         THEN (IF m3.state.playing /\ m3.state.first_run
                               THEN n_samples ELSE 0)
                         ELSE IF c.hist.op = "run" /\ c.hist.tick_no = 1
                         THEN c.hist.first_samples ELSE 0,
                     midi_in |-> MidiEvents(evs),
                     length_in |-> c.port.sequence_length,
                     inputs |-> IF MidiEvents(evs) = << >> THEN c.hist.inputs
                                ELSE c.hist.inputs + 1,
                     toggle |-> << >>,
                     tempo_in |-> TempoEvents(evs),
                     editor |-> << >>,
                     programmer_before |-> c.hist.programmer,
                     programmer |-> ModeAfter(c.hist.programmer,
                                              m4.unbound_launchpad \o m4.launchpad),
                     led_sent |-> IF m4.leds # << >> THEN m4.leds
                                  ELSE c.hist.led_sent,
                     click |-> c.hist.click,
                     div_by_zero |-> c.hist.div_by_zero ]]

(***************************************************************************)
(* The state machine.                                                      *)
(***************************************************************************)
Config ==
    [ state |-> state, gs |-> gs, port |-> port, outp |-> outp, out |-> out,
      lifecycle |-> lifecycle, hist |-> hist ]

Is(c) ==
    /\ state = c.state
    /\ gs = c.gs
    /\ port = c.port
    /\ outp = c.outp
    /\ out = c.out
    /\ lifecycle = c.lifecycle
    /\ hist = c.hist

Becomes(c) ==
    /\ state' = c.state
    /\ gs' = c.gs
    /\ port' = c.port
    /\ outp' = c.outp
    /\ out' = c.out
    /\ lifecycle' = c.lifecycle
    /\ hist' = c.hist

Init == Is(instantiate(SampleRate))

\* The host activates an instance that is not active.
Activate ==
    /\ lifecycle # "active"
    /\ Becomes(activate(Config))

\* The host deactivates an active instance.
Deactivate ==
    /\ lifecycle = "active"
    /\ Becomes(deactivate(Config))

\* The host calls run() on an instance it has activated before; the call is
\* left out once the frame counter would pass its bound.
Run(evs, n_samples) ==
    /\ lifecycle # "instantiated"
    /\ state.frame_counter + n_samples <= MaxFrame
    /\ Becomes(run(Config, evs, n_samples))

\* The Launchpad output sequence of the last run(): the mode SysEx, then the
\* LED refresh if there was one.
LaunchpadOut ==
    out.launchpad
      \o (IF out.leds = << >> THEN << >> ELSE update_launchpad_leds(out.leds[1]))

\* The host and the editor write the control input ports between calls.
WriteGridX(v) ==
    /\ port.grid_x # v
    /\ port' = [port EXCEPT !.grid_x = v]
    /\ UNCHANGED <<state, gs, outp, out, lifecycle, hist>>

WriteGridY(v) ==
    /\ port.grid_y # v
    /\ port' = [port EXCEPT !.grid_y = v]
    /\ UNCHANGED <<state, gs, outp, out, lifecycle, hist>>

WriteSequenceLength(v) ==
    /\ port.sequence_length # v
    /\ port' = [port EXCEPT !.sequence_length = v]
    /\ UNCHANGED <<state, gs, outp, out, lifecycle, hist>>

WriteMidiFilter(v) ==
    /\ port.midi_filter # v
    /\ port' = [port EXCEPT !.midi_filter = v]
    /\ UNCHANGED <<state, gs, outp, out, lifecycle, hist>>

(***************************************************************************)
(* Inputs.                                                                 *)
(***************************************************************************)
TransportStop == Position(FALSE, 0, TRUE, 0)
TransportStart == Position(FALSE, 0, TRUE, 1)
TempoChange(bpm) == Position(TRUE, bpm, FALSE, 0)
PadPress(x, y) == Midi(NOTE_ON, lp_grid_to_note(x, y), 127)

(***************************************************************************)
(* SpecPlay: playback of a pattern.  The instance was activated and the    *)
(* pads (0,0), (0,1) and (1,0) were pressed in its first three run() calls *)
(* of one sample each (the cells (0,36), (0,37) and (1,36)).  From there   *)
(* the host calls run() with every buffer size up to MaxSamples, stops and *)
(* starts the transport, changes the sequence length, and deactivates and  *)
(* activates the instance.                                                 *)
(***************************************************************************)
PatternEdited ==
    run(run(run(activate(instantiate(SampleRate)),
                <<PadPress(0, 0)>>, 1),
            <<PadPress(0, 1)>>, 1),
        <<PadPress(1, 0)>>, 1)

InitPlay == Is(PatternEdited)

PlaybackInputs == { << >>, <<TransportStop>>, <<TransportStart>> }

LengthInputs == {1, DEFAULT_SEQUENCE_LENGTH}

RunPlayback ==
    \E evs \in PlaybackInputs, n \in 1..MaxSamples : Run(evs, n)

HostWrites ==
    \E v \in LengthInputs : WriteSequenceLength(v)

NextPlay ==
    \/ Activate
    \/ Deactivate
    \/ RunPlayback
    \/ HostWrites

SpecPlay == InitPlay /\ [][NextPlay]_vars

(***************************************************************************)
(* SpecMidi: the Launchpad's messages.  The instance was activated and the *)
(* transport stopped in its first run().  From there the host changes the  *)
(* sequence length and calls run() with one MIDI message, or with a burst  *)
(* of pitch shifts that takes the window to its top or its bottom.         *)
(***************************************************************************)
Stopped == run(activate(instantiate(SampleRate)), <<TransportStop>>, 1)

InitMidi == Is(Stopped)

ControlChange(cc, value) == Midi(CONTROL_CHANGE, cc, value)

Burst(ev, k) == [i \in 1..k |-> ev]

\* Pads of the matrix, a pad on another channel, the notes around the matrix
\* (10, 89), a note whose column is 8 (19), a Note On with velocity 0 and a
\* Note Off.
PadInputs ==
    { <<PadPress(0, 0)>>, <<PadPress(1, 0)>>, <<PadPress(7, 7)>>,
      <<Midi(NOTE_ON + 1, lp_grid_to_note(0, 1), 1)>>,
      <<Midi(NOTE_ON, 10, 127)>>, <<Midi(NOTE_ON, 89, 127)>>,
      <<Midi(NOTE_ON, 19, 127)>>,
      <<Midi(NOTE_ON, lp_grid_to_note(0, 0), 0)>>,
      <<Midi(NOTE_OFF, lp_grid_to_note(0, 0), 64)>> }

\* The four buttons, a button released (value 0), another controller, and
\* the bursts.
ControlInputs ==
    { <<ControlChange(91, 127)>>, <<ControlChange(92, 127)>>,
      <<ControlChange(93, 127)>>, <<ControlChange(94, 1)>>,
      <<ControlChange(92, 0)>>, <<ControlChange(95, 127)>>,
      Burst(ControlChange(92, 127),
            GRID_PITCH_RANGE - GRID_VISIBLE_ROWS - DEFAULT_PITCH_OFFSET),
      Burst(ControlChange(91, 127), DEFAULT_PITCH_OFFSET) }

MidiInputs == PadInputs \cup ControlInputs

RunMidi ==
    /\ hist.inputs < MaxInputs
    /\ \E evs \in MidiInputs : Run(evs, 1)

PageLengths == {1, DEFAULT_SEQUENCE_LENGTH, MAX_SEQUENCE_LENGTH}

WritePageLength ==
    \E v \in PageLengths : WriteSequenceLength(v)

NextMidi ==
    \/ RunMidi
    \/ WritePageLength

SpecMidi == InitMidi /\ [][NextMidi]_vars

(***************************************************************************)
(* The editor and the Launchpad on one instance, the transport stopped:    *)
(* before a run() call the host changes the editor's ports or the length   *)
(* port, or the call carries MIDI events.  The length port holds whole     *)
(* numbers of 0..255, where the conversion to uint8_t is the identity.     *)
(***************************************************************************)
MaxChanges == 2

EditorXs == {9, -300, -400}
EditorYs == {GRID_VISIBLE_ROWS - 1}
EditorLengths == {0, 1, MAX_SEQUENCE_LENGTH, MAX_SEQUENCE_LENGTH + 1}
EditorMidi ==
    { <<PadPress(0, 0)>>,
      <<ControlChange(91, 127)>>, <<ControlChange(92, 127)>>,
      <<ControlChange(93, 127)>>, <<ControlChange(94, 127)>>,
      Burst(ControlChange(92, 127),
            GRID_PITCH_RANGE - GRID_VISIBLE_ROWS - DEFAULT_PITCH_OFFSET),
      Burst(ControlChange(91, 127), DEFAULT_PITCH_OFFSET) }

\* run() after the host has changed the ports to p.
RunWithPorts(p, evs) ==
    /\ lifecycle = "active"
    /\ gs.grid_change_counter < MaxChanges
    /\ Becomes(run([Config EXCEPT !.port = p], evs, 1))

\* The editor writes grid_x and grid_y together.
RunGrid ==
    \E x \in EditorXs, y \in EditorYs :
        RunWithPorts([port EXCEPT !.grid_x = x, !.grid_y = y], << >>)

RunLength ==
    \E v \in EditorLengths :
        RunWithPorts([port EXCEPT !.sequence_length = v], << >>)

RunLaunchpad ==
    /\ hist.inputs < MaxInputs
    /\ \E evs \in EditorMidi : RunWithPorts(port, evs)

NextEditor == RunGrid \/ RunLength \/ RunLaunchpad

SpecEditor == InitMidi /\ [][NextEditor]_vars

(***************************************************************************)
(* Playback under tempo changes.  The host set the sequence length to 2    *)
(* before the first run() call and the pads (0,0), (0,1) and (1,0) were    *)
(* pressed, so the two steps play {36, 37} and {36} in turn.  From there   *)
(* run() is called with every buffer size up to MaxSamples, with or        *)
(* without a time:Position that carries a tempo.                           *)
(***************************************************************************)
ShortPattern ==
    run(run(run([activate(instantiate(SampleRate))
                    EXCEPT !.port.sequence_length = 2],
                <<PadPress(0, 0)>>, 1),
            <<PadPress(0, 1)>>, 1),
        <<PadPress(1, 0)>>, 1)

InitTempo == Is(ShortPattern)

Tempos == {480, 240, 100, 0, -120}

TempoInputs == { << >> } \cup { <<TempoChange(bpm)>> : bpm \in Tempos }

RunTempo ==
    /\ lifecycle = "active"
    /\ \E evs \in TempoInputs, n \in 1..MaxSamples : Run(evs, n)

NextTempo == RunTempo

SpecTempo == InitTempo /\ [][NextTempo]_vars

(***************************************************************************)
(* The editor's buttons and grid (gui_x11.c handle_button_press) on an     *)
(* instance the host activates and deactivates: a button writes its signal *)
(* to the grid_x port, a click on a cell writes grid_x and grid_y, and the *)
(* next run() call reads them.  hist.editor is what the editor wrote       *)
(* before the call.                                                        *)
(***************************************************************************)
reset_signal == -100
query_signal == -200
clear_signal == -300
recenter_signal == -400
up_signal == -500
down_signal == -600

ButtonSignals ==
    { reset_signal, query_signal, clear_signal, recenter_signal,
      up_signal, down_signal }

\* Cells of the visible window the editor lets the user click.
ClickCells == { <<1, GRID_VISIBLE_ROWS - 1>> }

\* run() after the editor wrote e: a signal <<v>> or a cell <<x, y>>.
EditorTick(e) ==
    /\ lifecycle = "active"
    /\ state.frame_counter + 1 <= MaxFrame
    /\ gs.grid_change_counter < MaxChanges
    /\ Becomes([run([Config EXCEPT
                       !.port.grid_x = e[1],
                       !.port.grid_y = IF Len(e) = 2 THEN e[2] ELSE @],
                    << >>, 1)
                EXCEPT !.hist.editor = e])

PressButton == \E v \in ButtonSignals : EditorTick(<<v>>)

ClickCell == \E cell \in ClickCells : EditorTick(cell)

\* run() with the ports as they are.
IdleTick ==
    /\ lifecycle = "active"
    /\ Run(<< >>, 1)

InitButtons == Is(activate(instantiate(SampleRate)))

NextButtons ==
    \/ Activate
    \/ Deactivate
    \/ PressButton
    \/ ClickCell
    \/ IdleTick

SpecButtons == InitButtons /\ [][NextButtons]_vars

(***************************************************************************)
(* Playback with the MIDI filter.  The pattern of SpecPlay was edited with *)
(* the midi_filter port at 1 (Note-On only mode); from there the host      *)
(* calls run() with every buffer size, stops and starts the transport, and *)
(* switches the filter port between 0 and 1 before a call.                 *)
(***************************************************************************)
FilterValues == {0, 1}

PatternFiltered ==
    run(run(run([activate(instantiate(SampleRate))
                    EXCEPT !.port.midi_filter = 1],
                <<PadPress(0, 0)>>, 1),
            <<PadPress(0, 1)>>, 1),
        <<PadPress(1, 0)>>, 1)

InitFilter == Is(PatternFiltered)

\* run() after the host has set the midi_filter port to v.
RunFilter ==
    \E v \in FilterValues, evs \in PlaybackInputs, n \in 1..MaxSamples :
        /\ state.frame_counter + n <= MaxFrame
        /\ Becomes(run([Config EXCEPT !.port.midi_filter = v], evs, n))

NextFilter == RunFilter

SpecFilter == InitFilter /\ [][NextFilter]_vars

(***************************************************************************)
(* One click of the editor, delivered in two steps.  handle_button_press   *)
(* calls write_function for grid_x and then for grid_y; the host delivers  *)
(* each write to its port on its own, and run() may be called in between.  *)
(* A click begins after a run() has read the click before it.              *)
(***************************************************************************)
RaceCells == { <<1, GRID_VISIBLE_ROWS - 1>>, <<2, 3>> }

DeliverGridX ==
    /\ lifecycle = "active"
    /\ hist.op \in {"activate", "run"}
    /\ IF hist.click = << >> THEN TRUE ELSE hist.click[3] = 2
    /\ \E cell \in RaceCells :
          /\ IF hist.click = << >> THEN TRUE
             ELSE <<hist.click[1], hist.click[2]>> # cell
          /\ port' = [port EXCEPT !.grid_x = cell[1]]
          /\ hist' = [hist EXCEPT !.op = "write", !.click = <<cell[1], cell[2], 1>>]
    /\ UNCHANGED <<state, gs, outp, out, lifecycle>>

DeliverGridY ==
    /\ hist.click # << >> /\ hist.click[3] = 1
    /\ port' = [port EXCEPT !.grid_y = hist.click[2]]
    /\ hist' = [hist EXCEPT !.op = "write", !.click[3] = 2]
    /\ UNCHANGED <<state, gs, outp, out, lifecycle>>

ClickTick ==
    /\ lifecycle = "active"
    /\ gs.grid_change_counter < MaxChanges
    /\ \E n \in 1..MaxSamples : Run(<< >>, n)

NextClick ==
    \/ DeliverGridX
    \/ DeliverGridY
    \/ ClickTick

SpecClick == InitButtons /\ [][NextClick]_vars

(***************************************************************************)
(* An editor that never writes.  The host connects the grid_x and grid_y   *)
(* ports to locations that hold coordinates of the visible grid from the   *)
(* beginning; nothing writes them afterwards, no MIDI comes in, and the    *)
(* host activates, runs and deactivates the instance.                      *)
(***************************************************************************)
HeldXs == {0, MAX_GRID_SIZE - 1}
HeldYs == {0, GRID_VISIBLE_ROWS - 1}

InitHeld ==
    \E x \in HeldXs, y \in HeldYs :
        Is([instantiate(SampleRate) EXCEPT !.port.grid_x = x, !.port.grid_y = y])

HeldTick ==
    /\ lifecycle = "active"
    /\ \E n \in 1..MaxSamples : Run(<< >>, n)

NextHeld ==
    \/ Activate
    \/ Deactivate
    \/ HeldTick

SpecHeld == InitHeld /\ [][NextHeld]_vars

(***************************************************************************)
(* Fast tempos.  As SpecTempo, with tempos up to and past 60 * sample_rate *)
(* beats per minute, in a build that traps on a division by zero and in    *)
(* one that does not.                                                      *)
(***************************************************************************)
Builds == {"trap", "zero"}

FastTempos == {240, 60 * SampleRate, 60 * SampleRate + 1, 120 * SampleRate}

FastInputs == { << >> } \cup { <<TempoChange(bpm)>> : bpm \in FastTempos }

InitFast ==
    \E build \in Builds : Is([ShortPattern EXCEPT !.hist.div_by_zero = build])

RunFast ==
    /\ lifecycle = "active"
    /\ \E evs \in FastInputs, n \in 1..MaxSamples : Run(evs, n)

NextFast == RunFast

SpecFast == InitFast /\ [][NextFast]_vars

(***************************************************************************)
(* Playback without end.  A pattern with a note in each of its first three *)
(* steps was edited and the instance deactivated; the host sets the length *)
(* port to 1, 2 or 3, activates the instance and calls run() for ever with *)
(* buffers of 1..frames_per_step frames, tempo and length unchanged.       *)
(*                                                                         *)
(* run() reads frame_counter through frame_counter / frames_per_step       *)
(* (compared before and after the advance, and taken % sequence_length)    *)
(* and frame_counter % frames_per_step only, so a frame counter and the    *)
(* same counter less a whole number of pattern cycles behave alike: the    *)
(* counter is kept below one cycle, frames_per_step * sequence_length      *)
(* frames, after each call.  The 64-bit counter itself is taken not to     *)
(* overflow.                                                               *)
(***************************************************************************)
CycleLengths == {1, 2, 3}

CyclePattern ==
    deactivate(
      run(run(run(run([activate(instantiate(SampleRate))
                          EXCEPT !.port.sequence_length = 3],
                      <<PadPress(0, 0)>>, 1),
                  <<PadPress(0, 1)>>, 1),
              <<PadPress(1, 0)>>, 1),
          <<PadPress(2, 2)>>, 1))

InitCycle ==
    \E len \in CycleLengths :
        Is([CyclePattern EXCEPT !.port.sequence_length = len])

\* c with its frame counter less the whole pattern cycles in it.
WithinCycle(c) ==
    [c EXCEPT !.state.frame_counter =
                 @ % (c.state.frames_per_step * c.state.sequence_length)]

TickCycle ==
    /\ lifecycle = "active"
    /\ \E n \in 1..MaxSamples :
          /\ n <= state.frames_per_step
          /\ Becomes(WithinCycle(run(Config, << >>, n)))

NextCycle ==
    \/ Activate
    \/ TickCycle

SpecCycle == InitCycle /\ [][NextCycle]_vars

\* The host activates the instance and goes on calling run(): once the
\* instance is active a run() call is always possible, and the audio thread
\* makes one for every buffer.
FairCycle == SpecCycle /\ WF_vars(Activate) /\ []<><<TickCycle>>_vars

(***************************************************************************)
(* The LED refresh.  The instance plays from its activation; a run() call   *)
(* of one sample comes with nothing new, with a click on a cell, with the  *)
(* Clear button, or with an arrow button of the Launchpad (pitch up, or    *)
(* the left arrow, which does nothing on page 0).                          *)
(***************************************************************************)
ArrowButtons == {92, 93}

ArrowTick ==
    /\ lifecycle = "active"
    /\ hist.inputs < MaxInputs
    /\ \E cc \in ArrowButtons : Run(<<ControlChange(cc, 127)>>, 1)

ClearTick == EditorTick(<<clear_signal>>)

NextLeds ==
    \/ Activate
    \/ Deactivate
    \/ IdleTick
    \/ ClickCell
    \/ ClearTick
    \/ ArrowTick

SpecLeds == InitButtons /\ [][NextLeds]_vars

(***************************************************************************)
(* state_toggle_step on its own: any grid over a few cells, and the        *)
(* coordinates at and past both ends of the grid (uint8_t: never negative).*)
(***************************************************************************)
ToggleSteps == {0, MAX_GRID_SIZE - 1, MAX_GRID_SIZE}
TogglePitches == {0, GRID_ROWS - 1, GRID_ROWS}
ToggleCells == {<<0, 0>>, <<MAX_GRID_SIZE - 1, GRID_ROWS - 1>>, <<1, 1>>}

InitToggle ==
    \E g \in SUBSET ToggleCells :
        Is([instantiate(SampleRate) EXCEPT !.state.grid = g])

ToggleStep(x, y) ==
    Becomes([Config EXCEPT
               !.state = state_toggle_step(Config.state, x, y),
               !.hist = [NoHist EXCEPT !.op = "state_toggle_step",
                                       !.toggle = <<x, y>>]])

NextToggle == \E x \in ToggleSteps, y \in TogglePitches : ToggleStep(x, y)

SpecToggle == InitToggle /\ [][NextToggle]_vars

(***************************************************************************)
(* Properties.  A tick is one run() that reached its playback phase; f0    *)
(* and f1 are the frame counter before and after it, L is frames_per_step. *)
(***************************************************************************)
Tick == hist.op = "run" /\ ~hist.returned

\* A tick of an instance that is active, as the LV2 life cycle has it.
ActiveTick == Tick /\ lifecycle = "active"

\* The mid-points k * L + L / 2 of the steps that lie strictly between f0 and
\* f1: the tick passes them whether its sample range is read as [f0, f1) or
\* as (f0, f1].
MidPointsPassed(f0, f1, L) ==
    {mid \in (f0 + 1)..(f1 - 1) : mid % L = L \div 2}

\* C1: transport stop is an all-notes-off edge.  In the tick after the one
\* that decoded a stop while playing with active notes, playing is false,
\* no note is active, and every note that was active at the stop has had
\* its Note Off at offset 0 (in this tick, or it was off before this tick).
C1_TransportStopAllNotesOff ==
    (ActiveTick /\ hist.stopped # {}) =>
        /\ ~state.playing
        /\ state.active_notes = {}
        /\ \A p \in hist.stopped :
              p \in OffPitchesAt(out.midi, 0) \/ p \notin hist.active_before

\* C2: on the primary MIDI output no Note On of a pitch follows a Note On of
\* the same pitch without a Note Off of that pitch in between, whatever the
\* buffer sizes of the ticks.
C2_NoteOnThenOneNoteOff ==
    ActiveTick => ~HasDoubleOn(hist.sounding_before, out.midi)

\* C3: a tick whose playback phase runs with playing = false leaves
\* frame_counter unchanged and writes no Note On and no Note Off, the first
\* tick after activate included.
C3_StoppedTickIsSilent ==
    (ActiveTick /\ ~hist.playing) =>
        /\ state.frame_counter = hist.old_frame
        /\ NoteOns(out.midi) = {}
        /\ NoteOffs(out.midi) = {}

\* C4: 50% gate.  A playing tick of at most L samples that passes the
\* mid-point of a step emits, for every note active when the tick began, a
\* Note Off timestamped (mid-point - f0), also when it crosses a boundary.
C4_MidPointNeverMissed ==
    (ActiveTick /\ hist.playing /\ ~hist.first_run
          /\ hist.n_samples <= state.frames_per_step) =>
        \A mid \in MidPointsPassed(hist.old_frame, state.frame_counter,
                                   state.frames_per_step) :
            hist.active_before
              \subseteq OffPitchesAt(out.midi, mid - hist.old_frame)

\* C5: a tick that crosses a step boundary, floor(f1 / L) > floor(f0 / L),
\* timestamps the Note Ons of the new step at s - f0, where
\* s = (floor(f0 / L) + 1) * L, and refreshes the LEDs.
C5_StepStartAtCrossingOffset ==
    (ActiveTick /\ hist.playing /\ ~hist.first_run
          /\ state.frame_counter \div state.frames_per_step
               > hist.old_frame \div state.frames_per_step) =>
        /\ \A i \in NoteOns(out.midi) :
              out.midi[i].time =
                ((hist.old_frame \div state.frames_per_step) + 1)
                    * state.frames_per_step - hist.old_frame
        /\ out.leds # << >>

\* C6: the samples of the first tick after activate count as elapsed time.
\* When the first two ticks after activate play and the second one passes
\* sample L / 2 counted from the start of the first (and stays inside step
\* 0), it emits the Note Off of every active note at offset
\* L / 2 - (n_samples of the first tick) and no note stays active.
C6_FirstTickCountsAsElapsed ==
    (ActiveTick /\ hist.tick_no = 2 /\ hist.playing /\ ~hist.start_edge
          /\ hist.first_samples > 0
          /\ hist.first_samples < state.frames_per_step \div 2
          /\ hist.first_samples + hist.n_samples > state.frames_per_step \div 2
          /\ hist.first_samples + hist.n_samples < state.frames_per_step) =>
        /\ hist.active_before
             \subseteq OffPitchesAt(out.midi,
                                    (state.frames_per_step \div 2)
                                        - hist.first_samples)
        /\ state.active_notes = {}

\* C7: first-tick rule after every start.  A tick that decodes a false->true
\* change of the speed plays from frame 0, and by the end of the tick after
\* it the Note Ons (velocity 100) of every set cell of step 0 have been
\* emitted at offset 0.
C7_FirstTickRuleAfterStart ==
    /\ (ActiveTick /\ hist.start_edge /\ hist.playing) => hist.old_frame = 0
    /\ (ActiveTick /\ hist.after_start /\ hist.playing) =>
          \/ hist.start_played
          \/ Range(ColumnNotes(state, 0)) \subseteq OnPitchesAt(out.midi, 0)

\* C8: activate resets the playback state: playing, frame 0, step 0,
\* first_run, and no note is left active.
C8_ActivateResetsPlayback ==
    hist.op = "activate" =>
        /\ state.playing
        /\ state.frame_counter = 0
        /\ state.current_step = 0
        /\ state.first_run
        /\ state.active_notes = {}

\* C9: the first tick after deactivate emits no Note On, emits a Note Off for
\* every active note and leaves no note active.
C9_DeactivateIsStopEdge ==
    (Tick /\ hist.after_deactivate /\ ~hist.start_edge) =>
        /\ NoteOns(out.midi) = {}
        /\ hist.active_before
             \subseteq {out.midi[i].msg[2] : i \in NoteOffs(out.midi)}
        /\ state.active_notes = {}

\* C10: current_step < max(1, sequence_length) in every state, and for every
\* value of the current_step output port, also when the sequence length is
\* changed through its port during playback.
C10_CurrentStepBelowLength ==
    /\ state.current_step < Max(1, state.sequence_length)
    /\ outp.current_step < Max(1, state.sequence_length)

\* A step of the machine that is one run() call.
RunStep == port' = port /\ hist'.op = "run"

\* A run() call whose input holds exactly one MIDI message.
OneMessage == RunStep /\ Len(hist'.midi_in) = 1

\* The grid with the cell flipped.
Flipped(grid, cell) ==
    IF cell \in grid THEN grid \ {cell} ELSE grid \cup {cell}

\* C13: a Note On (status high nibble 0x9, velocity > 0) with note
\* N = 11 + x + 10 * y, x and y in 0..7, flips exactly the cell
\* (x + 8 * hardware_page, pitch_offset + y) iff x + 8 * hardware_page <
\* sequence_length and pitch_offset + y < 128; every other note message
\* (note outside the matrix, velocity 0, Note Off) leaves the grid as it is.
C13_PadStep ==
    OneMessage =>
        LET e == hist'.midi_in[1]
            pads == {xy \in (0..7) \X (0..7) :
                        e.msg[2] = 11 + xy[1] + 10 * xy[2]}
        IN  e.msg[1] \div 16 \in {8, 9} =>
              IF e.msg[1] \div 16 = 9 /\ e.msg[3] > 0 /\ pads # {}
              THEN \A xy \in pads :
                     LET step == xy[1] + 8 * state.hardware_page
                         pitch == state.pitch_offset + xy[2]
                     IN  IF step < state'.sequence_length /\ pitch < 128
                         THEN state'.grid = Flipped(state.grid, <<step, pitch>>)
                         ELSE state'.grid = state.grid
              ELSE state'.grid = state.grid

C13_PadTogglesItsCell == [][C13_PadStep]_vars

\* C13 witness: a pad pressed on page 1 has set the cell of column 8.
C13_Witness ==
    /\ hist.op = "run"
    /\ hist.midi_in = <<PadPress(0, 0)>>
    /\ state.hardware_page = 1
    /\ <<8, DEFAULT_PITCH_OFFSET>> \in state.grid

\* C14: a Control Change with value > 0: CC 91 decrements pitch_offset iff
\* it is > 0, CC 92 increments it iff it is < 120, CC 93 sets hardware_page
\* to 0 iff it is > 0, CC 94 sets it to 1 iff sequence_length > 8 and the
\* page is 0; each effective change has the LEDs refreshed; value 0 and any
\* other controller change neither pitch_offset nor hardware_page nor the
\* grid.
C14_ControlStep ==
    OneMessage =>
        LET e == hist'.midi_in[1]
            cc == e.msg[2]
            pressed == e.msg[3] > 0
            pitch == state.pitch_offset
            page == state.hardware_page
        IN  e.msg[1] \div 16 = 11 =>
              /\ state'.pitch_offset =
                    IF pressed /\ cc = 91 /\ pitch > 0 THEN pitch - 1
                    ELSE IF pressed /\ cc = 92 /\ pitch < 120 THEN pitch + 1
                    ELSE pitch
              /\ state'.hardware_page =
                    IF pressed /\ cc = 93 /\ page > 0 THEN 0
                    ELSE IF pressed /\ cc = 94 /\ page = 0
                            /\ state'.sequence_length > 8 THEN 1
                    ELSE page
              /\ state'.grid = state.grid
              /\ (state'.pitch_offset # pitch \/ state'.hardware_page # page)
                    => (out'.leds # << >> \/ gs'.grid_dirty)

C14_AuxiliaryControls == [][C14_ControlStep]_vars

\* C14 witness: CC 92 pressed with the window at its top, which stays at 120.
C14_Witness ==
    /\ hist.op = "run"
    /\ hist.midi_in = <<ControlChange(92, 127)>>
    /\ state.pitch_offset = GRID_PITCH_RANGE - GRID_VISIBLE_ROWS
    /\ out.leds = << >>

\* C12: after every completed tick the current_step output equals the
\* state's current_step at the end of that tick: the editor never sees a
\* step one tick behind the step that was just played.
C12_CurrentStepOutputNeverLags ==
    ActiveTick => outp.current_step = state.current_step

\* C20: toggle(step, pitch) with both coordinates in range flips exactly
\* grid[step][pitch] and leaves every other cell and field unchanged; applied
\* once more it restores the prior state; with a coordinate out of range it
\* changes nothing.
C20_ToggleAction ==
    hist'.op = "state_toggle_step" =>
        LET x == hist'.toggle[1]
            y == hist'.toggle[2]
        IN  IF x \in 0..15 /\ y \in 0..127
            THEN /\ state'.grid = Flipped(state.grid, <<x, y>>)
                 /\ state' = [state EXCEPT !.grid = state'.grid]
                 /\ state_toggle_step(state', x, y) = state
            ELSE state' = state

C20_ToggleFlipsOneCell == [][C20_ToggleAction]_vars

\* C20 witness: a toggle has cleared the last cell of the grid while another
\* cell stays set.
C20_Witness ==
    /\ hist.op = "state_toggle_step"
    /\ hist.toggle = <<15, 127>>
    /\ <<15, 127>> \notin state.grid
    /\ <<1, 1>> \in state.grid

\* Bit y of a row output.
Bit(v, y) == (v \div Pow2(y)) % 2 = 1

\* C11: at the end of every tick, for all x in 0..15 and y in 0..7, bit y of
\* the row_x output equals grid[x][pitch_offset + y] of the state at the end
\* of that tick, also on the ticks that apply a clear (-300) or a re-center
\* (-400).
C11_RowPortsShowWindow ==
    (hist.op = "run" /\ lifecycle = "active") =>
        \A x \in 0..15, y \in 0..7 :
            Bit(outp.grid_row[x], y) <=> <<x, state.pitch_offset + y>> \in state.grid

\* C15: in every reachable state sequence_length is in 1..16, pitch_offset
\* is in 0..120 and hardware_page is 0 or 1, whatever length values, Control
\* Changes, pad presses, editor toggles and sentinels came in.
C15_RangesHold ==
    /\ state.sequence_length \in 1..16
    /\ state.pitch_offset \in 0..120
    /\ state.hardware_page \in {0, 1}

\* C15 witness: the length port holds 17 while the window is at its top on
\* page 1.
C15_Witness ==
    /\ hist.op = "run"
    /\ hist.length_in = 17
    /\ state.pitch_offset = 120
    /\ state.hardware_page = 1

\* C16: in every reachable state hardware_page = 1 implies sequence_length
\* > 8: setting the length to n <= 8 on page 1 resets the page to 0.
C16_PageOneNeedsLongSequence ==
    state.hardware_page = 1 => state.sequence_length > 8

\* The nearest bound of the length range.
Clamp(n) == IF n < 1 THEN 1 ELSE IF n > 16 THEN 16 ELSE n

\* C17: the length input is clamped: a value read from the sequence_length
\* port outside 1..16 is stored as the nearest bound, a value in range is
\* stored as it is.
C17_LengthClamped ==
    (hist.op = "run" /\ lifecycle = "active") =>
        state.sequence_length = Clamp(hist.length_in)

\* C18: a tick that changes a grid cell, sequence_length, pitch_offset or
\* hardware_page increments the change counter, so the grid_changed output
\* differs after that tick.
C18_MutationStep ==
    (/\ hist'.op = "run"
     /\ \/ state'.grid # state.grid
        \/ state'.sequence_length # state.sequence_length
        \/ state'.pitch_offset # state.pitch_offset
        \/ state'.hardware_page # state.hardware_page)
    => outp'.grid_changed # outp.grid_changed

C18_MutationBumpsCounter == [][C18_MutationStep]_vars

\* A tick whose inputs are Control Changes, a length value and the re-center
\* sentinel only: no pad message, and the editor ports as they were or
\* grid_x = -400.
ViewChangeOnly ==
    /\ hist'.op = "run"
    /\ \A i \in 1..Len(hist'.midi_in) : hist'.midi_in[i].msg[1] \div 16 = 11
    /\ port'.grid_y = port.grid_y
    /\ port'.grid_x = port.grid_x \/ port'.grid_x = -400

\* C19: changing pitch_offset (CC 91/92, re-center), sequence_length (the
\* length port) or hardware_page (CC 93/94) leaves every grid cell as it
\* is; columns >= sequence_length keep their bits.
C19_ViewStep == ViewChangeOnly => state'.grid = state.grid

C19_ViewChangesKeepGrid == [][C19_ViewStep]_vars

\* C19 witness: the length was set to 1 and the cell of column 9 is still
\* set.
C19_Witness ==
    /\ hist.op = "run"
    /\ hist.length_in = 1
    /\ state.sequence_length = 1
    /\ <<9, DEFAULT_PITCH_OFFSET + GRID_VISIBLE_ROWS - 1>> \in state.grid

\* An LED command of the Launchpad stream: a pad Note On or an aux CC.
IsLedCommand(e) ==
    Len(e.msg) = 3 /\ e.msg[1] \in {NOTE_ON, CONTROL_CHANGE}

\* C21: on the hardware output stream every LED command (pad Note On or aux
\* CC) is preceded by an enter-programmer-mode SysEx sent since the last
\* activation or reset: none is sent after an activate or an exit SysEx
\* before the next enter SysEx.
C21_LedsOnlyInProgrammerMode ==
    hist.op = "run" =>
        \A i \in 1..Len(LaunchpadOut) :
            IsLedCommand(LaunchpadOut[i]) =>
                \/ hist.programmer_before
                \/ \E j \in 1..(i - 1) :
                       LaunchpadOut[j].msg = SYSEX_ENTER_PROGRAMMER

\* C21 witness: the tick after a reset re-enters Programmer Mode and
\* refreshes the LEDs.
C21_Witness ==
    /\ hist.op = "run"
    /\ port.grid_x = reset_signal
    /\ ~hist.programmer_before
    /\ out.leds # << >>

\* A tick before which the editor wrote to its ports.
EditorStep == hist'.op = "run" /\ hist'.editor # << >>

\* C24: every editor click on a grid cell toggles that cell in the plugin,
\* so two successive clicks on the same visible cell (x, y) return
\* grid[x][pitch_offset + y] to its original value.
C24_ClickStep ==
    (EditorStep /\ Len(hist'.editor) = 2) =>
        state'.grid =
            Flipped(state.grid,
                    <<hist'.editor[1], state.pitch_offset + hist'.editor[2]>>)

C24_EveryClickToggles == [][C24_ClickStep]_vars

\* C25: pressing the editor's pitch-up button raises the plugin's
\* pitch_offset by one (if it is < 120) and pitch-down lowers it by one (if
\* it is > 0) by the end of the next tick.
C25_PitchStep ==
    EditorStep =>
        /\ (hist'.editor = <<up_signal>> /\ state.pitch_offset < 120)
              => state'.pitch_offset = state.pitch_offset + 1
        /\ (hist'.editor = <<down_signal>> /\ state.pitch_offset > 0)
              => state'.pitch_offset = state.pitch_offset - 1

C25_PitchButtonsShiftWindow == [][C25_PitchStep]_vars

\* The four sentinels run() acts on.
Sentinels == {reset_signal, query_signal, clear_signal, recenter_signal}

\* C30: a sentinel on grid_x fires in the first tick that observes grid_x
\* changed to that value, does not fire again while the port keeps the
\* value, and any other negative value fires nothing and changes no state.
C30_SentinelStep ==
    hist'.op = "run" =>
        /\ (port'.grid_x \in Sentinels /\ port'.grid_x # port.grid_x)
              => hist'.returned
        /\ (port'.grid_x \in Sentinels /\ port'.grid_x = port.grid_x
              /\ hist.op = "run")
              => ~hist'.returned
        /\ (port'.grid_x < 0 /\ port'.grid_x \notin Sentinels)
              => (~hist'.returned /\ gs'.prev_grid_x = gs.prev_grid_x
                    /\ state'.grid = state.grid
                    /\ state'.pitch_offset = state.pitch_offset)

C30_SentinelsEdgeTriggered == [][C30_SentinelStep]_vars

\* C22: the hardware LEDs mirror the pattern state: after every tick that
\* reaches the LED phase, the colour most recently sent for each of the 64
\* pads and the 4 aux buttons is the colour the LED rule gives the state at
\* the end of that tick.
C22_LedsMirrorState ==
    ActiveTick =>
        /\ hist.led_sent # << >>
        /\ update_launchpad_leds(hist.led_sent[1])
              = update_launchpad_leds(LedView(state))

\* The colour the LED rule gives the pad (x, y) in the state.
RuleColour(x, y) ==
    LET step == x + 8 * state.hardware_page
        pitch == state.pitch_offset + y
        set == <<step, pitch>> \in state.grid
    IN  IF step >= state.sequence_length THEN 0
        ELSE IF step = state.current_step THEN (IF set THEN 13 ELSE 23)
        ELSE (IF set THEN 21 ELSE 0)

White(available) == IF available THEN 3 ELSE 0

C26_TimestampsAscend ==
    hist.op = "run" =>
        \A i, j \in 1..Len(out.midi) :
            i < j => out.midi[i].time <= out.midi[j].time

\* C26 witness: a tick that wrote a Note On and, after it, a Note Off at a
\* later offset.
C26_Witness ==
    /\ hist.op = "run"
    /\ \E i, j \in 1..Len(out.midi) :
          /\ i < j
          /\ IsNoteOn(out.midi[i])
          /\ IsNoteOff(out.midi[j])
          /\ out.midi[j].time > out.midi[i].time

\* The step boundaries strictly inside the frames f0..f1.
BoundariesPassed(f0, f1, L) == {b \in (f0 + 1)..(f1 - 1) : b % L = 0}

\* C27: if one tick spans k >= 2 step boundaries, the Note Ons of every
\* step that was crossed are emitted, each at the offset of its boundary:
\* no crossed step is skipped or coalesced.
C27_EveryCrossedStepPlays ==
    (ActiveTick /\ hist.playing /\ ~hist.first_run
          /\ Cardinality(BoundariesPassed(hist.old_frame, state.frame_counter,
                                          state.frames_per_step)) >= 2) =>
        \A b \in BoundariesPassed(hist.old_frame, state.frame_counter,
                                  state.frames_per_step) :
            Range(ColumnNotes(state, (b \div state.frames_per_step)
                                        % state.sequence_length))
              \subseteq OnPitchesAt(out.midi, b - hist.old_frame)

\* C28: a positive tempo update does not alter the step index: the step
\* played at the next step start is the cyclic successor
\* (current_step + 1) mod sequence_length of the step playing when the
\* tempo changed.
C28_TempoStep ==
    (/\ hist'.op = "run"
     /\ \E i \in 1..Len(hist'.tempo_in) : hist'.tempo_in[i] > 0
     /\ hist'.n_samples <= state'.frames_per_step
     /\ NoteOns(out'.midi) # {})
    => OnPitchesAt(out'.midi, 0)
         = Range(ColumnNotes(state', (state.current_step + 1)
                                        % state'.sequence_length))

C28_TempoKeepsStepOrder == [][C28_TempoStep]_vars

\* sample_rate * 60 / tempo rounded to the nearest whole number.
Rounded(rate, bpm) == (2 * 60 * rate + bpm) \div (2 * bpm)

\* C29: frames_per_step equals round(sample_rate * 60 / tempo) after every
\* accepted tempo update.
C29_FramesPerStepRounded ==
    (hist.op = "run" /\ hist.tempo_in # << >> /\ hist.tempo_in[1] > 0) =>
        state.frames_per_step = Rounded(state.sample_rate, hist.tempo_in[1])

\* C31: every tick runs all its phases.  A run() of an active instance in
\* which an editor signal (-100, -200, -300 or -400) is applied still opens
\* and closes its three output sequences, advances the frame counter by
\* n_samples while playing (the first run after activate aside), refreshes
\* the LEDs it left dirty, and writes the output ports from the state.
C31_SentinelTickRunsAllPhases ==
    (hist.op = "run" /\ lifecycle = "active" /\ hist.editor # << >>
        /\ hist.editor[1] \in Sentinels /\ gs.prev_grid_x = hist.editor[1]) =>
        /\ out.bound
        /\ (hist.playing /\ ~hist.first_run) =>
               state.frame_counter = hist.old_frame + hist.n_samples
        /\ ~gs.grid_dirty
        /\ outp.grid_changed = gs.grid_change_counter % 1000000

\* The SysEx that enters Programmer Mode is on both outputs of the last run().
EnterSent(o) ==
    /\ \E i \in 1..Len(o.midi) : o.midi[i].msg = SYSEX_ENTER_PROGRAMMER
    /\ \E i \in 1..Len(o.launchpad) : o.launchpad[i].msg = SYSEX_ENTER_PROGRAMMER

\* C32: the SysEx F0 00 20 29 02 0D 0E 01 F7 is on the primary MIDI output
\* and on the Launchpad output of the first run() after each activate and of
\* the first run() after each run() that applied a reset request (-100),
\* and of no other run(); the run() that applies a reset request clears
\* launchpad_mode_entered.
C32_EnterStep ==
    (hist'.op = "run" /\ lifecycle' = "active") =>
        /\ EnterSent(out') <=>
             \/ hist.op = "activate"
             \/ (hist.op = "run" /\ hist.editor = <<reset_signal>> /\ hist.returned)
        /\ (hist'.editor = <<reset_signal>> /\ hist'.returned) =>
             ~gs'.launchpad_mode_entered

C32_EnterOnFirstTickOnly == [][C32_EnterStep]_vars

\* The run() passed a step boundary: the step index of the frame counter
\* changed in its playback phase.
Crossed ==
    /\ hist'.playing /\ ~hist'.first_run
    /\ (state'.frame_counter \div state'.frames_per_step)
          # (hist'.old_frame \div state'.frames_per_step)

\* The run() edited the pattern or moved the Launchpad's view of it.
EditedOrNavigated ==
    \/ state'.grid # state.grid
    \/ state'.pitch_offset # state.pitch_offset
    \/ state'.hardware_page # state.hardware_page

\* C33: a run() that reaches its LED phase refreshes the LEDs iff the dirty
\* flag is set there (it was left set, or the run entered Programmer Mode,
\* edited, navigated or passed a step boundary) or current_step differs
\* from prev_led_step; after it the dirty flag is clear and prev_led_step is
\* current_step.  So a run() with none of these sends no LED message.
C33_LedStep ==
    (hist'.op = "run" /\ ~hist'.returned) =>
        /\ (out'.leds # << >>) <=>
              \/ gs.grid_dirty
              \/ ~gs.launchpad_mode_entered
              \/ EditedOrNavigated
              \/ Crossed
              \/ state'.current_step # gs.prev_led_step
        /\ out'.leds # << >> => out'.leds = <<LedView(state')>>
        /\ ~gs'.grid_dirty
        /\ gs'.prev_led_step = state'.current_step

C33_QuietWitness ==
    /\ hist.op = "run" /\ ~hist.returned
    /\ hist.midi_in # << >>
    /\ out.leds = << >>

\* C34: while the midi_filter port is above 0.5, a run() writes a Note Off
\* only for a transport stop, never for the 50% point of a step; it writes
\* the Note Ons of a step it starts as without the filter; and the notes
\* active at a transport stop have their Note Off at offset 0 by the run()
\* after the one that decoded the stop.
C34_FilterKeepsStopNoteOffs ==
    (ActiveTick /\ 2 * port.midi_filter > 1) =>
        /\ (~hist.stop_edge /\ hist.stopped = {}) => NoteOffs(out.midi) = {}
        /\ (hist.playing /\ state.current_step # hist.old_step) =>
              Range(ColumnNotes(state, state.current_step))
                  \subseteq {out.midi[i].msg[2] : i \in NoteOns(out.midi)}
        /\ \A p \in hist.stopped :
              p \in OffPitchesAt(out.midi, 0) \/ p \notin hist.active_before

\* The 8x8 slice of the pattern the visible window shows: byte x * 8 + y is
\* the cell of step x and note pitch_offset + y.
ViewportSlice(s) ==
    [i \in 1..64 |->
        IF <<(i - 1) \div 8, s.pitch_offset + ((i - 1) % 8)>> \in s.grid
        THEN 1 ELSE 0]

\* C35: a run() that changes the pattern (a cell toggled by a pad or by the
\* editor, or the pattern cleared) writes exactly one editor notification,
\* at offset 0, whose 64 bytes are the visible 8x8 slice of the pattern; a
\* run() that leaves the pattern as it was writes none.
C35_NotifyStep ==
    hist'.op = "run" =>
        IF state'.grid # state.grid
        THEN /\ Len(out'.notify) = 1
             /\ out'.notify[1].time = 0
             /\ out'.notify[1].msg = ViewportSlice(state')
        ELSE out'.notify = << >>

C35_MutationNotifiesOnce == [][C35_NotifyStep]_vars

\* C36: the editor's click on the visible cell (x, y) reaches the plugin as
\* a write of grid_x and a write of grid_y.  However run() calls fall
\* between the two writes, a run() toggles no other cell than
\* (x, pitch_offset + y) of the click under way, and the first run() after
\* both writes toggles that cell.
C36_ClickStep ==
    (hist'.op = "run" /\ hist.click # << >>) =>
        LET cell == <<hist.click[1], state.pitch_offset + hist.click[2]>>
        IN  /\ \A other \in (state.grid \cup state'.grid) \ {cell} :
                  (other \in state'.grid) <=> (other \in state.grid)
            /\ (hist.op = "write" /\ hist.click[3] = 2) =>
                  ((cell \in state'.grid) <=> (cell \notin state.grid))

C36_ClickTogglesItsCellOnly == [][C36_ClickStep]_vars

\* C37: the values the grid_x and grid_y ports hold from instantiation are
\* not an edit.  With an editor that never writes the ports and no pad
\* pressed, no run() toggles a cell: the pattern stays empty and the change
\* counter stays 0, whatever coordinates the ports hold.
C37_HeldCoordinatesAreNoEdit ==
    /\ state.grid = {}
    /\ gs.grid_change_counter = 0

\* C38: every event a run() of n_samples > 0 writes to one of its three
\* output sequences has a frame offset t with 0 <= t < n_samples; so has
\* the Note Off of the 50% point, whose offset is half_point - old_frame.
C38_TimestampsInsideBuffer ==
    (Tick /\ hist.n_samples > 0) =>
        \A events \in {out.midi, out.launchpad, out.notify} :
            \A i \in 1..Len(events) :
                events[i].time >= 0 /\ events[i].time < hist.n_samples

\* C39: frames_per_step is at least 1 in every reachable state, whatever
\* positive tempo the host delivers, so that no division or remainder by
\* frames_per_step has a zero divisor.
C39_FramesPerStepPositive == state.frames_per_step >= 1

\* The last run() started step k: it wrote the Note Ons of column k.
StepStarted(k) ==
    /\ hist.op = "run"
    /\ NoteOns(out.midi) # {}
    /\ state.current_step = k
    /\ OnPitchesAt(out.midi, 0) = Range(ColumnNotes(state, k))

\* A run() that starts a step starts step 0 if it is the first run() after
\* activate, and else the step after the one started last (previous_step).
C40_OrderStep ==
    (hist'.op = "run" /\ NoteOns(out'.midi) # {}) =>
        /\ state'.current_step =
              IF hist'.first_run THEN 0
              ELSE (state.previous_step + 1) % state.sequence_length
        /\ OnPitchesAt(out'.midi, 0)
              = Range(ColumnNotes(state', state'.current_step))

\* C40: while the transport plays, tempo and sequence length unchanged and
\* every buffer at most frames_per_step long, the steps are started in
\* order, k and then (k + 1) mod sequence_length, from step 0 on; and when
\* the host goes on calling run(), every step below sequence_length is
\* started again and again.
C40_StepsInOrderForever ==
    /\ [][C40_OrderStep]_vars
    /\ \A k \in {len - 1 : len \in CycleLengths} :
          []<>(k < state.sequence_length => StepStarted(k))

\* Step 0 of a pattern of three steps started again, after step 2.
C40_Witness ==
    /\ StepStarted(0)
    /\ ~hist.first_run
    /\ state.sequence_length = 3
    /\ hist.old_step = 2

=============================================================================
